---- MODULE Spec2Model ----
(***************************************************************************)
(* Model of pkg/featureprovider/providers/request/request.go:              *)
(*   - FeatureRequest.Init, a one-time initialisation behind sync.Once,    *)
(*     called by several goroutines;                                       *)
(*   - the EtcdClusterKstone cluster provider: Create, AfterCreate,        *)
(*     Update, Equal and Status, working on a cluster descriptor, on the   *)
(*     remote store's unstructured document and on the member probes.      *)
(* Go strings that the code parses or formats are sequences of one-char    *)
(* strings; strings the code only copies or compares are TLA+ strings.     *)
(***************************************************************************)
EXTENDS Integers, Sequences, FiniteSets, TLC

VARIABLES
    pc,          \* FeatureRequest.Init: position of each calling goroutine
    callErr,     \* Init's local `err` of each caller
    onceDone,    \* c.once: the done flag
    onceM,       \* c.once: the mutex, 0 when free, else the holder
    inspection,  \* c.inspection: "nil", "constructed" or "initialized"
    bodyStarted, \* how many times the one-time body was entered
    bodyEnded,   \* how many times the one-time body finished
    bodyErr,     \* what c.inspection.Init() returned, "" before it ran
    bodyRunner,  \* the caller whose Do ran the one-time body, 0 before it ran
    cluster,     \* c.cluster: the descriptor the provider is bound to
    store,       \* the remote store's document for this cluster
    ret          \* the last lifecycle call: its inputs and what it returned

vars == <<pc, callErr, onceDone, onceM, inspection, bodyStarted, bodyEnded,
          bodyErr, bodyRunner, cluster, store, ret>>

initVars == <<pc, callErr, onceDone, onceM, inspection, bodyStarted,
              bodyEnded, bodyErr, bodyRunner>>

providerVars == <<cluster, store, ret>>

(***************************************************************************)
(* Bounds                                                                  *)
(***************************************************************************)
NumCallers == 3
MaxSize == 2
MaxMembers == 3
MaxQuantity == 1
MaxSANLen == 3

(***************************************************************************)
(* Go strings as character sequences                                       *)
(***************************************************************************)
Digits == <<"0", "1", "2", "3", "4", "5", "6", "7", "8", "9">>

\* strconv.Itoa / fmt.Sprintf("%d") of a non-negative integer
RECURSIVE Itoa(_)
Itoa(n) == IF n < 10 THEN <<Digits[n + 1]>>
           ELSE Itoa(n \div 10) \o <<Digits[(n % 10) + 1]>>

\* strings.TrimLeft(s, cutset): drops every leading character of the cutset
RECURSIVE TrimLeft(_, _)
TrimLeft(s, cutset) ==
    IF s # <<>> /\ Head(s) \in cutset THEN TrimLeft(Tail(s), cutset) ELSE s

\* strings.TrimRight(s, cutset): drops every trailing character of the cutset
RECURSIVE TrimRight(_, _)
TrimRight(s, cutset) ==
    IF s # <<>> /\ s[Len(s)] \in cutset
    THEN TrimRight(SubSeq(s, 1, Len(s) - 1), cutset)
    ELSE s

\* strings.TrimSpace
TrimSpace(s) == TrimRight(TrimLeft(s, {" "}), {" "})

\* strings.Split(s, ","): always at least one piece, the empty string included
RECURSIVE SplitComma(_, _)
SplitComma(s, cur) ==
    IF s = <<>> THEN <<cur>>
    ELSE IF Head(s) = "," THEN <<cur>> \o SplitComma(Tail(s), <<>>)
    ELSE SplitComma(Tail(s), Append(cur, Head(s)))

(***************************************************************************)
(* Unstructured documents: map[string]interface{} trees, tagged by type    *)
(***************************************************************************)
JNull == [t |-> "null"]
JInt(n) == [t |-> "int", v |-> n]
JStr(s) == [t |-> "str", v |-> s]
JBool(b) == [t |-> "bool", v |-> b]
JList(l) == [t |-> "list", v |-> l]
JMap(m) == [t |-> "map", v |-> m]

\* unstructured.NestedFieldNoCopy: walks the path through nested maps
RECURSIVE NestedFieldNoCopy(_, _)
NestedFieldNoCopy(obj, fields) ==
    IF fields = <<>> THEN [val |-> obj, found |-> TRUE, err |-> FALSE]
    ELSE IF obj.t = "map"
         THEN IF Head(fields) \in DOMAIN obj.v
              THEN NestedFieldNoCopy(obj.v[Head(fields)], Tail(fields))
              ELSE [val |-> JNull, found |-> FALSE, err |-> FALSE]
         ELSE [val |-> JNull, found |-> FALSE, err |-> TRUE]

\* The typed accessors: the value when the path is there and of the asked
\* type, else the zero value, with found and err as the library reports them
NestedTyped(obj, fields, type, zero) ==
    LET r == NestedFieldNoCopy(obj, fields)
    IN  IF r.err \/ ~r.found THEN [val |-> zero, found |-> r.found, err |-> r.err]
        ELSE IF r.val.t = type THEN [val |-> r.val.v, found |-> TRUE, err |-> FALSE]
        ELSE [val |-> zero, found |-> FALSE, err |-> TRUE]

NestedInt64(obj, fields) == NestedTyped(obj, fields, "int", 0)
NestedString(obj, fields) == NestedTyped(obj, fields, "str", <<>>)
NestedSlice(obj, fields) == NestedTyped(obj, fields, "list", <<>>)
NestedMap(obj, fields) == NestedTyped(obj, fields, "map", <<>>)

\* unstructured.SetNestedField(obj, value, "spec") on a top-level map
SetNestedField(obj, value, field) ==
    JMap([k \in DOMAIN obj.v \cup {field} |->
            IF k = field THEN value ELSE obj.v[k]])

(***************************************************************************)
(* FeatureRequest.Init                                                     *)
(***************************************************************************)
Callers == 1..NumCallers
InitErrors == {"", "initFailed"}

\* a goroutine calls Init: `var err error`, then c.once.Do
InitCall(p) ==
    /\ pc[p] = "idle"
    /\ pc' = [pc EXCEPT ![p] = "fast"]
    /\ callErr' = [callErr EXCEPT ![p] = ""]
    /\ UNCHANGED <<onceDone, onceM, inspection, bodyStarted, bodyEnded, bodyErr, bodyRunner>>
    /\ UNCHANGED providerVars

\* Once.Do: the fast path reads done without the lock
OnceFast(p) ==
    /\ pc[p] = "fast"
    /\ pc' = [pc EXCEPT ![p] = IF onceDone THEN "return" ELSE "lock"]
    /\ UNCHANGED <<callErr, onceDone, onceM, inspection, bodyStarted, bodyEnded, bodyErr, bodyRunner>>
    /\ UNCHANGED providerVars

\* Once.doSlow: o.m.Lock() blocks while another goroutine holds the mutex
MutexFreeAlways(m) == TRUE
MutexFree(m) == m = 0

\* Once.doSlow: with the lock held, done is read again
OnceLock(p) ==
    /\ pc[p] = "lock"
    /\ MutexFree(onceM)
    /\ onceM' = p
    /\ pc' = [pc EXCEPT ![p] = IF onceDone THEN "unlock" ELSE "body"]
    /\ UNCHANGED <<callErr, onceDone, inspection, bodyStarted, bodyEnded, bodyErr, bodyRunner>>
    /\ UNCHANGED providerVars

\* the closure: c.inspection = &inspection.Server{...}
BodyStart(p) ==
    /\ pc[p] = "body"
    /\ inspection' = "constructed"
    /\ bodyStarted' = bodyStarted + 1
    /\ bodyRunner' = p
    /\ pc' = [pc EXCEPT ![p] = "init"]
    /\ UNCHANGED <<callErr, onceDone, onceM, bodyEnded, bodyErr>>
    /\ UNCHANGED providerVars

BodyEndShared(p) ==
    /\ pc[p] = "init"
    /\ \E e \in InitErrors :
         /\ callErr' = [q \in Callers |-> e]
         /\ bodyErr' = e
         /\ inspection' = IF e = "" THEN "initialized" ELSE inspection
    /\ bodyEnded' = bodyEnded + 1
    /\ pc' = [pc EXCEPT ![p] = "store"]
    /\ UNCHANGED <<onceDone, onceM, bodyStarted, bodyRunner>>
    /\ UNCHANGED providerVars

\* the closure: err = c.inspection.Init()
BodyEnd(p) ==
    /\ pc[p] = "init"
    /\ \E e \in InitErrors :
         /\ callErr' = [callErr EXCEPT ![p] = e]
         /\ bodyErr' = e
         /\ inspection' = IF e = "" THEN "initialized" ELSE inspection
    /\ bodyEnded' = bodyEnded + 1
    /\ pc' = [pc EXCEPT ![p] = "store"]
    /\ UNCHANGED <<onceDone, onceM, bodyStarted, bodyRunner>>
    /\ UNCHANGED providerVars

\* Once.doSlow: the deferred o.done.Store(1) runs when the closure returns
OnceStore(p) ==
    /\ pc[p] = "store"
    /\ onceDone' = TRUE
    /\ pc' = [pc EXCEPT ![p] = "unlock"]
    /\ UNCHANGED <<callErr, onceM, inspection, bodyStarted, bodyEnded, bodyErr, bodyRunner>>
    /\ UNCHANGED providerVars

\* Once.doSlow: the deferred o.m.Unlock()
OnceUnlock(p) ==
    /\ pc[p] = "unlock"
    /\ onceM' = 0
    /\ pc' = [pc EXCEPT ![p] = "return"]
    /\ UNCHANGED <<callErr, onceDone, inspection, bodyStarted, bodyEnded, bodyErr, bodyRunner>>
    /\ UNCHANGED providerVars

\* return err
InitReturn(p) ==
    /\ pc[p] = "return"
    /\ pc' = [pc EXCEPT ![p] = "returned"]
    /\ UNCHANGED <<callErr, onceDone, onceM, inspection, bodyStarted, bodyEnded, bodyErr, bodyRunner>>
    /\ UNCHANGED providerVars

(***************************************************************************)
(* The cluster descriptor (kstoneapiv1.EtcdCluster) bound to the provider  *)
(***************************************************************************)
ClusterName == "c1"
ClusterNamespace == "ns"

\* Go maps and slices: nil is not the same value as empty
NilMap == [nil |-> TRUE, kv |-> <<>>]
GoMap(kv) == [nil |-> FALSE, kv |-> kv]
NilSlice == [nil |-> TRUE, items |-> <<>>]
GoSlice(items) == [nil |-> FALSE, items |-> items]

\* m[k] on a map[string]string: the zero value when the key (or the map) is absent
MapHas(m, k) == ~m.nil /\ k \in DOMAIN m.kv
MapGet(m, k, zero) == IF MapHas(m, k) THEN m.kv[k] ELSE zero

\* m[k] = v: a write to a nil map panics, the caller checks m.nil first
MapSet(m, k, v) ==
    GoMap([x \in DOMAIN m.kv \cup {k} |-> IF x = k THEN v ELSE m.kv[x]])

EnvVar(n, v) == [name |-> n, value |-> v]

(***************************************************************************)
(* generateEtcdSpec                                                        *)
(***************************************************************************)
\* the loop over strings.Split(extraServerCertSANsStr, ","): each piece
\* trimmed, the empty ones skipped
CertSANListKeepEmpty(pieces) ==
    [i \in 1..Len(pieces) |-> JStr(TrimSpace(pieces[i]))]

RECURSIVE CertSANList(_)
CertSANList(pieces) ==
    IF pieces = <<>> THEN <<>>
    ELSE LET temp == TrimSpace(Head(pieces))
         IN  IF temp = <<>> THEN CertSANList(Tail(pieces))
             ELSE <<JStr(temp)>> \o CertSANList(Tail(pieces))

\* extraServerCertSANList: nil (JSON null) when nothing is left
ExtraServerCertSANs(c) ==
    LET l == CertSANList(SplitComma(MapGet(c.annotations, "extraServerCertSANs", <<>>), <<>>))
    IN  IF Len(l) = 0 THEN JNull ELSE JList(l)

\* labels / annotations copied into a fresh map[string]interface{}
CopyStringMap(m) == JMap([k \in DOMAIN m.kv |-> JStr(m.kv[k])])

\* json.Marshal of one corev1.EnvVar: value carries omitempty
EnvVarToJSON(e) ==
    IF e.value = "" THEN JMap([name |-> JStr(e.name)])
    ELSE JMap([name |-> JStr(e.name), value |-> JStr(e.value)])

\* json.Marshal(c.cluster.Spec.Env) then json.Unmarshal into []interface{}:
\* a nil slice marshals to null, and null unmarshals to a nil slice
EnvToJSON(env) ==
    IF env.nil THEN JNull
    ELSE JList([i \in 1..Len(env.items) |-> EnvVarToJSON(env.items[i])])

GiSuffixGB == <<"G", "B">>
GiSuffix == <<"G", "i">>

IsTLS(c) == MapGet(c.annotations, "scheme", "") = "https"

TemplateOf(c) ==
    [extraArgs |-> IF IsTLS(c)
                   THEN JList(<<JStr("logger=zap"), JStr("client-cert-auth=true")>>)
                   ELSE JList(<<JStr("logger=zap")>>),
     labels |-> CopyStringMap(c.labels),
     annotations |-> CopyStringMap(c.annotations),
     env |-> EnvToJSON(c.env),
     persistentVolumeClaimSpec |-> JMap(
        [accessModes |-> JList(<<JStr("ReadWriteOnce")>>),
         resources |-> JMap([requests |-> JMap(
            [storage |-> JStr(Itoa(c.diskSize) \o GiSuffix)])])]),
     resources |-> JMap(
        [requests |-> JMap([cpu |-> JStr(Itoa(c.totalCpu)),
                            memory |-> JStr(Itoa(c.totalMem) \o GiSuffix)]),
         limits |-> JMap([cpu |-> JStr(Itoa(c.totalCpu)),
                          memory |-> JStr(Itoa(c.totalMem) \o GiSuffix)])])]

SecureOf(c) ==
    JMap([tls |-> JMap([autoTLSCert |-> JMap(
        [autoGenerateClientCert |-> JBool(TRUE),
         autoGeneratePeerCert |-> JBool(TRUE),
         autoGenerateServerCert |-> JBool(TRUE),
         extraServerCertSANs |-> ExtraServerCertSANs(c)])])])

generateEtcdSpec(c) ==
    IF IsTLS(c)
    THEN JMap([size |-> JInt(c.size), version |-> JStr(c.version),
               template |-> JMap(TemplateOf(c)), secure |-> SecureOf(c)])
    ELSE JMap([size |-> JInt(c.size), version |-> JStr(c.version),
               template |-> JMap(TemplateOf(c))])

(***************************************************************************)
(* The remote store (clusterprovider.DynamicClient), one document          *)
(***************************************************************************)
NoDocument == [present |-> FALSE, obj |-> JNull]
Document(obj) == [present |-> TRUE, obj |-> obj]

\* errors a request can fail with whatever the store holds
StoreFaults == {"Timeout", "Forbidden"}

\* Get: the fault if one strikes, NotFound without a document, else the document
StoreGet(st, fault) ==
    IF fault # "" THEN [err |-> fault, obj |-> JNull]
    ELSE IF ~st.present THEN [err |-> "NotFound", obj |-> JNull]
    ELSE [err |-> "", obj |-> st.obj]

\* Create: AlreadyExists leaves the stored document as it is
StoreCreate(st, obj, fault) ==
    IF fault # "" THEN [err |-> fault, store |-> st]
    ELSE IF st.present THEN [err |-> "AlreadyExists", store |-> st]
    ELSE [err |-> "", store |-> Document(obj)]

\* Update: replaces the stored document by the submitted one
StoreUpdate(st, obj, fault) ==
    IF fault # "" THEN [err |-> fault, store |-> st]
    ELSE IF ~st.present THEN [err |-> "NotFound", store |-> st]
    ELSE [err |-> "", store |-> Document(obj)]

(***************************************************************************)
(* Create                                                                  *)
(***************************************************************************)
\* the document Create builds, with the owner reference set on it
CreateRequest(c) ==
    JMap([apiVersion |-> JStr("etcd.tkestack.io/v1alpha1"),
          kind |-> JStr("EtcdCluster"),
          metadata |-> JMap([name |-> JStr(c.name),
                             namespace |-> JStr(c.namespace),
                             ownerReferences |-> JList(<<JStr(c.name)>>)]),
          spec |-> generateEtcdSpec(c)])

\* errors.IsAlreadyExists(err) is the one error Create swallows
CreateErrorAll(err) == err
CreateError(err) == IF err = "AlreadyExists" THEN "" ELSE err

\* Create: returns early when SetOwnerReference fails, else one create request
CreateResult(c, st, ownerErr, fault) ==
    IF ownerErr # ""
    THEN [err |-> ownerErr, store |-> st, storeErr |-> "", writes |-> 0]
    ELSE LET r == StoreCreate(st, CreateRequest(c), fault)
         IN  [err |-> CreateError(r.err), store |-> r.store,
              storeErr |-> r.err, writes |-> 1]

(***************************************************************************)
(* Update                                                                  *)
(***************************************************************************)
\* updateEtcdSpec's guard: err != nil || !found || spec == nil
SpecUnreadableErrOnly(etcd) == NestedMap(etcd, <<"spec">>).err
SpecUnreadable(etcd) ==
    LET r == NestedMap(etcd, <<"spec">>) IN r.err \/ ~r.found

\* updateEtcdSpec: the spec subtree replaced by the newly generated one
updateEtcdSpecMerge(c, etcd) ==
    IF SpecUnreadable(etcd) THEN [err |-> "get spec error", etcd |-> etcd]
    ELSE LET old == etcd.v.spec.v
             new == generateEtcdSpec(c).v
         IN  [err |-> "",
              etcd |-> SetNestedField(etcd,
                          JMap([k \in DOMAIN old \cup DOMAIN new |->
                                  IF k \in DOMAIN new THEN new[k] ELSE old[k]]),
                          "spec")]
updateEtcdSpec(c, etcd) ==
    IF SpecUnreadable(etcd) THEN [err |-> "get spec error", etcd |-> etcd]
    ELSE [err |-> "", etcd |-> SetNestedField(etcd, generateEtcdSpec(c), "spec")]

\* Update: Get, updateEtcdSpec, then one update request
UpdateResult(c, st, getFault, updateFault) ==
    LET g == StoreGet(st, getFault)
    IN  IF g.err # ""
        THEN [err |-> g.err, store |-> st, getErr |-> g.err, writes |-> 0,
              submitted |-> JNull]
        ELSE LET u == updateEtcdSpec(c, g.obj)
             IN  IF u.err # ""
                 THEN [err |-> u.err, store |-> st, getErr |-> "", writes |-> 0,
                       submitted |-> JNull]
                 ELSE LET r == StoreUpdate(st, u.etcd, updateFault)
                      IN  [err |-> r.err, store |-> r.store, getErr |-> "",
                           writes |-> 1, submitted |-> u.etcd]

(***************************************************************************)
(* Equal                                                                   *)
(***************************************************************************)
StoragePath == <<"spec", "template", "persistentVolumeClaimSpec", "resources",
                 "requests", "storage">>
CPUPath == <<"spec", "template", "resources", "requests", "cpu">>
MemoryPath == <<"spec", "template", "resources", "requests", "memory">>
EnvPath == <<"spec", "template", "env">>

\* json.Unmarshal of one field of an EnvVar object: a string, absent or null
\* gives the value, any other type is an error
EnvFieldOK(m, k) == k \in DOMAIN m => m[k].t \in {"str", "null"}
EnvField(m, k) == IF k \in DOMAIN m /\ m[k].t = "str" THEN m[k].v ELSE ""

\* json.Unmarshal of one list element into corev1.EnvVar
EnvElemOK(j) ==
    \/ j.t = "null"
    \/ j.t = "map" /\ EnvFieldOK(j.v, "name") /\ EnvFieldOK(j.v, "value")
EnvElem(j) ==
    IF j.t = "map" THEN EnvVar(EnvField(j.v, "name"), EnvField(j.v, "value"))
    ELSE EnvVar("", "")

\* json.Marshal(oldEnvObject) then json.Unmarshal(&oldEnv): a nil
\* oldEnvObject gives a nil slice, a list gives its decoded elements
DecodeEnv(r) ==
    IF r.err \/ ~r.found THEN [err |-> "", env |-> NilSlice]
    ELSE IF \E i \in 1..Len(r.val) : ~EnvElemOK(r.val[i])
         THEN [err |-> "json: cannot unmarshal", env |-> NilSlice]
         ELSE [err |-> "", env |-> GoSlice([i \in 1..Len(r.val) |-> EnvElem(r.val[i])])]

\* reflect.DeepEqual on two []corev1.EnvVar: nil and empty differ
DeepEqualEnv(a, b) == a.nil = b.nil /\ a.items = b.items

VersionCutsetNone == {}
VersionCutset == {"v"}
GiCutset == {"G", "i"}

\* the special case taken before reflect.DeepEqual: both lists have length 0
BothEmptyNever(a, b) == FALSE
BothEmpty(a, b) == Len(a.items) = 0 /\ Len(b.items) = 0

\* the five scalar comparisons in the code's order, every accessor's found
\* and err results discarded: the first field that differs, "" when none does
ScalarDiff(c, obj) ==
    LET oldSize == NestedInt64(obj, <<"spec", "size">>).val
        oldVersion == NestedString(obj, <<"spec", "version">>).val
        oldStorage == NestedString(obj, StoragePath).val
        oldCPU == NestedString(obj, CPUPath).val
        oldMemory == NestedString(obj, MemoryPath).val
    IN  IF c.size # oldSize THEN "size"
        ELSE IF TrimLeft(oldVersion, VersionCutset) # TrimLeft(c.version, VersionCutset)
        THEN "version"
        ELSE IF TrimRight(oldStorage, GiCutset) # Itoa(c.diskSize) THEN "storage"
        ELSE IF oldCPU # Itoa(c.totalCpu) THEN "cpu"
        ELSE IF TrimRight(oldMemory, GiCutset) # Itoa(c.totalMem) THEN "memory"
        ELSE ""

\* the env comparison: decode the observed list, then compare
EnvCompare(c, obj) ==
    LET d == DecodeEnv(NestedSlice(obj, EnvPath))
    IN  IF d.err # "" THEN [eq |-> TRUE, err |-> d.err, diff |-> "", decoded |-> TRUE]
        ELSE IF BothEmpty(d.env, c.env)
        THEN [eq |-> TRUE, err |-> "", diff |-> "", decoded |-> TRUE]
        ELSE IF ~DeepEqualEnv(d.env, c.env)
        THEN [eq |-> FALSE, err |-> "", diff |-> "env", decoded |-> TRUE]
        ELSE [eq |-> TRUE, err |-> "", diff |-> "", decoded |-> TRUE]

EqualCompareEnvFirst(c, obj) ==
    LET e == EnvCompare(c, obj)
        s == ScalarDiff(c, obj)
    IN  IF e.err # "" \/ s = "" THEN e
        ELSE [eq |-> FALSE, err |-> "", diff |-> s, decoded |-> TRUE]

EqualCompareWithSecure(c, obj) ==
    LET s == ScalarDiff(c, obj)
    IN  IF s # "" THEN [eq |-> FALSE, err |-> "", diff |-> s, decoded |-> FALSE]
        ELSE IF IsTLS(c) # NestedFieldNoCopy(obj, <<"spec", "secure">>).found
        THEN [eq |-> FALSE, err |-> "", diff |-> "secure", decoded |-> FALSE]
        ELSE EnvCompare(c, obj)

\* Equal after a successful Get: the six comparisons in the code's order,
\* returning at the first difference; decoded tells whether the env list of
\* the observed document was read and decoded
EqualCompare(c, obj) ==
    LET s == ScalarDiff(c, obj)
    IN  IF s # "" THEN [eq |-> FALSE, err |-> "", diff |-> s, decoded |-> FALSE]
        ELSE EnvCompare(c, obj)

EqualResultFalseOnError(c, st, getFault) ==
    LET g == StoreGet(st, getFault)
    IN  IF g.err # ""
        THEN [eq |-> FALSE, err |-> g.err, diff |-> "", getErr |-> g.err,
              decoded |-> FALSE]
        ELSE LET r == EqualCompare(c, g.obj)
             IN  [eq |-> r.eq, err |-> r.err, diff |-> r.diff, getErr |-> "",
                  decoded |-> r.decoded]

\* Equal: (true, err) when the Get fails
EqualResult(c, st, getFault) ==
    LET g == StoreGet(st, getFault)
    IN  IF g.err # ""
        THEN [eq |-> TRUE, err |-> g.err, diff |-> "", getErr |-> g.err,
              decoded |-> FALSE]
        ELSE LET r == EqualCompare(c, g.obj)
             IN  [eq |-> r.eq, err |-> r.err, diff |-> r.diff, getErr |-> "",
                  decoded |-> r.decoded]

(***************************************************************************)
(* AfterCreate                                                             *)
(***************************************************************************)
\* fmt.Sprintf("%s/%s-etcd-client-cert", namespace, name), as its pieces
CertName(c) == <<c.namespace, "/", c.name, "-etcd-client-cert">>

ImportedAddrAppend(c) ==
    MapGet(c.annotations, "importedAddr", <<>>)
        \o <<MapGet(c.annotations, "scheme", ""), "://", c.name, "-etcd.",
             c.namespace, ".svc.cluster.local:2379">>

\* fmt.Sprintf("%s://%s-etcd.%s.svc.cluster.local:2379", scheme, name, namespace)
ImportedAddr(c) ==
    <<MapGet(c.annotations, "scheme", ""), "://", c.name, "-etcd.", c.namespace,
      ".svc.cluster.local:2379">>

\* one round of the loop: "key->value", with a comma after all but the last
ExtClientEntry(c, i) ==
    <<c.name, "-etcd-">> \o Itoa(i) \o <<":2379", "->", c.name, "-etcd-">>
      \o Itoa(i) \o <<".", c.name, "-etcd-headless.", c.namespace,
                      ".svc.cluster.local:2379">>
      \o (IF i < c.size - 1 THEN <<",">> ELSE <<>>)

\* the loop for i := 0; i < size; i++
RECURSIVE ExtClientURL(_, _)
ExtClientURL(c, i) ==
    IF i < c.size THEN ExtClientEntry(c, i) \o ExtClientURL(c, i + 1) ELSE <<>>

\* the three annotation writes; on a nil map the first write panics
AfterCreateResult(c) ==
    IF c.annotations.nil
    THEN [outcome |-> "panic", annotations |-> c.annotations]
    ELSE LET a1 == IF IsTLS(c) THEN MapSet(c.annotations, "certName", CertName(c))
                   ELSE c.annotations
             a2 == MapSet(a1, "importedAddr", ImportedAddr(c))
             a3 == MapSet(a2, "extClientURL", ExtClientURL(c, 0))
         IN  [outcome |-> "return", annotations |-> a3]

(***************************************************************************)
(* Status                                                                  *)
(***************************************************************************)
\* clusterprovider.GetEtcdClusterMemberStatus: the member statuses and the
\* candidate phase, Running when every member is healthy, else Unknown
GetEtcdClusterMemberStatus(health) ==
    [members |-> [i \in 1..Len(health) |-> [id |-> i, healthy |-> health[i]]],
     phase |-> IF \A i \in 1..Len(health) : health[i] THEN "Running" ELSE "Unknown"]

\* the probe-failure condition: err != nil || len(members) == 0 || size != len(members)
ProbeFailed(c, probeErr, count) == probeErr # "" \/ count = 0 \/ c.size # count

\* the failure branch: only a Running phase is overwritten, with Unknown
FailurePhaseAlways(prev) == "Unknown"
FailurePhaseUnlessCreating(prev) == IF prev = "Creating" THEN prev ELSE "Unknown"
FailurePhase(prev) == IF prev = "Running" THEN "Unknown" ELSE prev

\* the success branch: the candidate overwrites the phase when the phase was
\* Running or the candidate is not Unknown
SuccessPhaseAlways(prev, candidate) == candidate
SuccessPhaseSticky(prev, candidate) == IF candidate # "Unknown" THEN candidate ELSE prev
SuccessPhase(prev, candidate) ==
    IF prev = "Running" \/ candidate # "Unknown" THEN candidate ELSE prev

\* the early return: no endpoint discovered and no importedAddr annotation
NoEndpointsNever(annotations, endpoints) == FALSE
NoEndpoints(annotations, endpoints) ==
    Len(endpoints) = 0 /\ ~MapHas(annotations, "importedAddr")

\* Status. endpoints: what GetStorageMemberEndpoints returned; probeErr and
\* health: what GetRuntimeEtcdMembers returned (one entry per member) and
\* what the health check of each member found
StatusResult(c, endpoints, probeErr, health) ==
    LET status == c.status
        annotations == IF c.annotations.nil THEN GoMap(<<>>) ELSE c.annotations
        imported == Len(endpoints) = 0 /\ MapHas(annotations, "importedAddr")
        addr == MapGet(annotations, "importedAddr", <<>>)
        eps == IF imported THEN <<addr>> ELSE endpoints
        st1 == IF imported THEN [status EXCEPT !.serviceName = addr] ELSE status
        ms == GetEtcdClusterMemberStatus(health)
    IN  IF NoEndpoints(annotations, endpoints)
        THEN [status |-> [status EXCEPT !.phase = "Creating"], err |-> "",
              probed |-> FALSE, probeEndpoints |-> <<>>]
        ELSE IF ProbeFailed(c, probeErr, Len(health))
        THEN [status |-> [st1 EXCEPT !.phase = FailurePhase(st1.phase)],
              err |-> probeErr, probed |-> TRUE, probeEndpoints |-> eps]
        ELSE [status |-> [st1 EXCEPT !.members = ms.members,
                                     !.phase = SuccessPhase(st1.phase, ms.phase)],
              err |-> probeErr, probed |-> TRUE, probeEndpoints |-> eps]

(***************************************************************************)
(* Descriptors and observed documents the provider is run on               *)
(***************************************************************************)
Descriptor(size, version, res, env, annotations, phase) ==
    [name |-> ClusterName, namespace |-> ClusterNamespace,
     size |-> size, version |-> version,
     diskSize |-> res.disk, totalCpu |-> res.cpu, totalMem |-> res.mem,
     env |-> env,
     labels |-> GoMap([app |-> <<"etcd">>]),
     annotations |-> annotations,
     status |-> [phase |-> phase, members |-> <<>>, serviceName |-> <<>>]]

Versions == {<<>>, <<"3", ".", "5">>, <<"v", "3", ".", "5">>}

\* disk, cpu and memory requests: the same count for the three, or three
\* different counts, one of them of two digits
Resources ==
    {[disk |-> q, cpu |-> q, mem |-> q] : q \in 0..MaxQuantity}
        \cup {[disk |-> 1, cpu |-> 2, mem |-> 10]}
DefaultResources == [disk |-> 1, cpu |-> 2, mem |-> 10]
Envs == {NilSlice, GoSlice(<<>>), GoSlice(<<EnvVar("A", "1")>>)}

\* phases a cluster resource has before this provider ever reported one
InitialPhases == {"", "Creating", "Updating"}

\* annotation maps of the descriptors Status and AfterCreate are run on
StatusAnnotations ==
    {NilMap, GoMap(<<>>), GoMap([scheme |-> "http"]), GoMap([scheme |-> "https"])}

StatusDescriptors ==
    {Descriptor(size, <<"3", ".", "5">>, DefaultResources, NilSlice, a, ph) :
        size \in 0..MaxSize, a \in StatusAnnotations, ph \in InitialPhases}

\* annotation maps of the descriptors Create, Update and Equal are run on
StoreAnnotations ==
    {NilMap,
     GoMap([scheme |-> "https",
            extraServerCertSANs |-> <<"a", ",", " ", ",", " ", "b", " ">>])}

StoreDescriptors ==
    {Descriptor(size, v, res, env, a, "") :
        size \in {0, MaxSize}, v \in Versions, res \in Resources,
        env \in Envs, a \in StoreAnnotations}

\* a document with the value at a path replaced (missing maps are created)
RECURSIVE SetPath(_, _, _)
SetPath(obj, path, val) ==
    IF path = <<>> THEN val
    ELSE IF obj.t # "map" THEN obj
    ELSE LET k == Head(path)
             sub == IF k \in DOMAIN obj.v THEN obj.v[k] ELSE JMap(<<>>)
         IN  JMap([x \in DOMAIN obj.v \cup {k} |->
                     IF x = k THEN SetPath(sub, Tail(path), val) ELSE obj.v[x]])

\* a document with the key at a path removed
RECURSIVE DelPath(_, _)
DelPath(obj, path) ==
    IF obj.t # "map" \/ Head(path) \notin DOMAIN obj.v THEN obj
    ELSE IF Len(path) = 1
         THEN JMap([x \in DOMAIN obj.v \ {Head(path)} |-> obj.v[x]])
         ELSE JMap([x \in DOMAIN obj.v |->
                     IF x = Head(path) THEN DelPath(obj.v[x], Tail(path))
                     ELSE obj.v[x]])

\* the document a Create for c stored, with the status the operator of the
\* remote resource wrote next to it
StoredFor(c) ==
    SetPath(CreateRequest(c), <<"status">>, JMap([phase |-> JStr("Running")]))

\* what the store may hold when the provider looks: the document as stored,
\* one with a field or two another writer changed, or one with a field
\* missing or of another type
ObservedDocuments(c) ==
    LET d == StoredFor(c)
    IN  {d,
         SetPath(d, <<"spec", "paused">>, JBool(TRUE)),
         SetPath(d, <<"spec", "size">>, JInt(c.size + 1)),
         SetPath(d, <<"spec", "version">>, JStr(<<"v">> \o c.version)),
         SetPath(d, <<"spec", "version">>, JStr(<<"3", ".", "6">>)),
         SetPath(d, <<"spec", "version">>,
                 JStr(IF c.version = <<>> THEN <<>> ELSE Tail(c.version))),
         SetPath(d, StoragePath, JStr(Itoa(c.diskSize) \o <<"G">>)),
         SetPath(d, StoragePath, JStr(Itoa(c.diskSize + 1) \o GiSuffix)),
         SetPath(d, CPUPath, JStr(Itoa(c.totalCpu + 1))),
         SetPath(d, MemoryPath, JStr(Itoa(c.totalMem + 1) \o GiSuffix)),
         SetPath(d, EnvPath, JList(<<>>)),
         SetPath(d, EnvPath, JNull),
         SetPath(d, EnvPath, JList(<<EnvVarToJSON(EnvVar("B", "2"))>>)),
         SetPath(d, EnvPath, JList(<<JStr(<<"A", "=", "1">>)>>)),
         DelPath(d, EnvPath),
         DelPath(d, <<"spec">>),
         SetPath(d, <<"spec">>, JNull),
         SetPath(d, <<"spec">>, JStr(<<"x">>)),
         SetPath(d, <<"spec">>, JMap(<<>>)),
         DelPath(d, <<"spec", "size">>),
         SetPath(d, <<"spec", "size">>, JStr(Itoa(c.size))),
         DelPath(d, <<"spec", "version">>),
         SetPath(d, <<"spec", "version">>, JInt(3)),
         DelPath(d, <<"spec", "template">>),
         SetPath(d, <<"spec", "template">>, JList(<<>>)),
         DelPath(d, StoragePath),
         SetPath(d, StoragePath, JInt(c.diskSize)),
         DelPath(d, CPUPath),
         SetPath(d, CPUPath, JInt(c.totalCpu)),
         DelPath(d, MemoryPath),
         SetPath(d, MemoryPath, JInt(c.totalMem)),
         SetPath(SetPath(d, <<"spec", "size">>, JInt(c.size + 1)),
                 <<"spec", "version">>, JStr(<<"3", ".", "6">>)),
         SetPath(SetPath(d, CPUPath, JStr(Itoa(c.totalCpu + 1))),
                 MemoryPath, JStr(Itoa(c.totalMem + 1) \o GiSuffix)),
         SetPath(SetPath(d, StoragePath, JStr(Itoa(c.diskSize + 1) \o GiSuffix)),
                 EnvPath, JList(<<JStr(<<"A", "=", "1">>)>>))}

InitialStores(c) == {NoDocument} \cup {Document(d) : d \in ObservedDocuments(c)}

\* no call yet; seenRunning tells whether a Status call has returned the
\* phase Running so far
NoCall == [op |-> "none", outcome |-> "return", err |-> "", seenRunning |-> FALSE]

(***************************************************************************)
(* The lifecycle calls                                                     *)
(***************************************************************************)
Faults == {""} \cup StoreFaults

Create ==
    \E ownerErr \in {"", "no kind is registered"}, fault \in Faults :
        LET r == CreateResult(cluster, store, ownerErr, fault)
        IN  /\ store' = r.store
            /\ ret' = [op |-> "Create", outcome |-> "return", err |-> r.err,
                       before |-> store, storeErr |-> r.storeErr,
                       writes |-> r.writes]
            /\ UNCHANGED cluster
            /\ UNCHANGED initVars

Update ==
    \E getFault \in Faults, updateFault \in {"", "Conflict"} :
        LET r == UpdateResult(cluster, store, getFault, updateFault)
        IN  /\ store' = r.store
            /\ ret' = [op |-> "Update", outcome |-> "return", err |-> r.err,
                       before |-> store, getErr |-> r.getErr,
                       writes |-> r.writes, submitted |-> r.submitted]
            /\ UNCHANGED cluster
            /\ UNCHANGED initVars

\* the write the previous call made, when it was a Create that stored its
\* document or an Update that replaced the spec
LastWrite ==
    IF ret.op = "Create" /\ ret.err = "" /\ ret.storeErr = "" THEN "Create"
    ELSE IF ret.op = "Update" /\ ret.err = "" THEN "Update"
    ELSE ""

Equal ==
    \E getFault \in Faults :
        LET r == EqualResult(cluster, store, getFault)
        IN  /\ ret' = [op |-> "Equal", outcome |-> "return", err |-> r.err,
                       eq |-> r.eq, diff |-> r.diff, before |-> store,
                       getErr |-> r.getErr, writes |-> 0,
                       decoded |-> r.decoded, after |-> LastWrite]
            /\ UNCHANGED <<cluster, store>>
            /\ UNCHANGED initVars

AfterCreate ==
    LET r == AfterCreateResult(cluster)
    IN  /\ cluster' = [cluster EXCEPT !.annotations = r.annotations]
        /\ ret' = [op |-> "AfterCreate", outcome |-> r.outcome, err |-> "",
                   before |-> cluster.annotations,
                   seenRunning |-> ret.seenRunning]
        /\ UNCHANGED store
        /\ UNCHANGED initVars

EndpointLists == {<<>>, <<<<"c1-etcd-0:2379">>>>}
ProbeErrors == {"", "context deadline exceeded"}
HealthLists == UNION {[1..n -> BOOLEAN] : n \in 0..MaxMembers}

\* Status returns the new status; the reconciler that called it stores the
\* returned status in the cluster resource, the next call's previous status
Status ==
    \E endpoints \in EndpointLists, probeErr \in ProbeErrors, health \in HealthLists :
        LET r == StatusResult(cluster, endpoints, probeErr, health)
        IN  /\ cluster' = [cluster EXCEPT !.status = r.status]
            /\ ret' = [op |-> "Status", outcome |-> "return", err |-> r.err,
                       prev |-> cluster.status, status |-> r.status,
                       size |-> cluster.size,
                       imported |-> MapHas(cluster.annotations, "importedAddr"),
                       endpoints |-> endpoints, probed |-> r.probed,
                       probeEndpoints |-> r.probeEndpoints,
                       probeErr |-> probeErr, probeCount |-> Len(health),
                       candidate |-> GetEtcdClusterMemberStatus(health).phase,
                       seenRunning |-> ret.seenRunning \/ r.status.phase = "Running"]
            /\ UNCHANGED store
            /\ UNCHANGED initVars

\* label and annotation maps the user-facing API may give the descriptor
LabelSets ==
    {GoMap([app |-> <<"etcd">>]), GoMap([app |-> <<"etcd">>, tier |-> <<"db">>])}
ReconcileAnnotations ==
    {NilMap,
     GoMap([scheme |-> "https"]),
     GoMap([scheme |-> "https", extraServerCertSANs |-> <<"a">>]),
     GoMap([scheme |-> "https",
            extraServerCertSANs |-> <<"a", ",", " ", ",", " ", "b", " ">>])}

\* the user-facing API changes the descriptor's labels or annotations and
\* nothing else
Relabel ==
    \E a \in ReconcileAnnotations, l \in LabelSets :
        /\ a # cluster.annotations \/ l # cluster.labels
        /\ cluster' = [cluster EXCEPT !.annotations = a, !.labels = l]
        /\ ret' = [op |-> "Relabel", outcome |-> "return", err |-> ""]
        /\ UNCHANGED store
        /\ UNCHANGED initVars

\* one round of the reconciler: Equal, then Update when Equal's boolean is
\* false
Reconcile ==
    \E getFault \in Faults, updateFault \in {"", "Conflict"} :
        LET e == EqualResult(cluster, store, getFault)
            u == UpdateResult(cluster, store, "", updateFault)
        IN  /\ store' = IF e.eq THEN store ELSE u.store
            /\ ret' = [op |-> "Reconcile", outcome |-> "return", err |-> e.err,
                       eq |-> e.eq, getErr |-> e.getErr, before |-> store,
                       updated |-> ~e.eq,
                       updateErr |-> IF e.eq THEN "" ELSE u.err,
                       writes |-> IF e.eq THEN 0 ELSE u.writes,
                       after |-> IF ret.op = "Relabel" THEN "Relabel" ELSE ""]
            /\ UNCHANGED cluster
            /\ UNCHANGED initVars

(***************************************************************************)
(* Specifications                                                          *)
(***************************************************************************)
InitOnce ==
    /\ pc = [p \in Callers |-> "idle"]
    /\ callErr = [p \in Callers |-> ""]
    /\ onceDone = FALSE
    /\ onceM = 0
    /\ inspection = "nil"
    /\ bodyStarted = 0
    /\ bodyEnded = 0
    /\ bodyErr = ""
    /\ bodyRunner = 0

\* the provider of a cluster the store may already hold a document for
Init ==
    /\ InitOnce
    /\ cluster \in StoreDescriptors
    /\ store \in InitialStores(cluster)
    /\ ret = NoCall

Next == Create \/ Update \/ Equal

Spec == Init /\ [][Next]_vars

\* the provider of a cluster being brought up and watched
InitStatus ==
    /\ InitOnce
    /\ cluster \in StatusDescriptors
    /\ store = NoDocument
    /\ ret = NoCall

NextStatus == AfterCreate \/ Status

SpecStatus == InitStatus /\ [][NextStatus]_vars

\* N goroutines calling Init on one FeatureRequest
InitFeature ==
    /\ InitOnce
    /\ cluster = Descriptor(1, <<"3", ".", "5">>, DefaultResources, NilSlice, NilMap, "")
    /\ store = NoDocument
    /\ ret = NoCall

NextFeature ==
    \E p \in Callers :
        \/ InitCall(p)
        \/ OnceFast(p)
        \/ OnceLock(p)
        \/ BodyStart(p)
        \/ BodyEnd(p)
        \/ OnceStore(p)
        \/ OnceUnlock(p)
        \/ InitReturn(p)

SpecFeature == InitFeature /\ [][NextFeature]_vars

\* a reconciler working on a descriptor whose labels and annotations the
\* user changes
ReconcileDescriptors ==
    {Descriptor(MaxSize, <<"3", ".", "5">>, res, env, a, "") :
        res \in Resources, env \in Envs, a \in ReconcileAnnotations}

ReconcileStores(c) ==
    {NoDocument,
     Document(StoredFor(c)),
     Document(SetPath(StoredFor(c), <<"spec", "size">>, JInt(c.size + 1))),
     Document(SetPath(StoredFor(c), EnvPath, JList(<<JStr(<<"A", "=", "1">>)>>)))}

InitReconcile ==
    /\ InitOnce
    /\ cluster \in ReconcileDescriptors
    /\ store \in ReconcileStores(cluster)
    /\ ret = NoCall

NextReconcile == Create \/ Relabel \/ Equal \/ Reconcile

SpecReconcile == InitReconcile /\ [][NextReconcile]_vars

\* the extraServerCertSANs annotation: every string of commas, spaces and
\* two host names up to MaxSANLen characters
SANAlphabet == {"a", "b", ",", " "}
SANStrings == UNION {[1..n -> SANAlphabet] : n \in 0..MaxSANLen}

\* annotation maps with and without a scheme and a SAN string
SynthAnnotations ==
    {NilMap, GoMap(<<>>)}
        \cup {GoMap([scheme |-> sc]) : sc \in {"http", "https"}}
        \cup {GoMap([extraServerCertSANs |-> s]) : s \in SANStrings}
        \cup {GoMap([scheme |-> sc, extraServerCertSANs |-> s]) :
                  sc \in {"http", "https"}, s \in SANStrings}

SynthDescriptors ==
    {Descriptor(MaxSize, <<"3", ".", "5">>, DefaultResources, env, a, "") :
        env \in {NilSlice, GoSlice(<<EnvVar("A", "1")>>)}, a \in SynthAnnotations}

\* generateEtcdSpec called on the descriptor, as Create and updateEtcdSpec do
Synthesize ==
    /\ ret' = [op |-> "generateEtcdSpec", outcome |-> "return", err |-> "",
               spec |-> generateEtcdSpec(cluster)]
    /\ UNCHANGED <<cluster, store>>
    /\ UNCHANGED initVars

InitSynth ==
    /\ InitOnce
    /\ cluster \in SynthDescriptors
    /\ store = NoDocument
    /\ ret = NoCall

NextSynth == Synthesize

SpecSynth == InitSynth /\ [][NextSynth]_vars

(***************************************************************************)
(* Status: the properties                                                  *)
(***************************************************************************)
\* the last call was a Status that had an endpoint to probe
StatusWithEndpoints ==
    ret.op = "Status" /\ (Len(ret.endpoints) > 0 \/ ret.imported)

\* ... and the probe failed, found no member, or not as many as the size
StatusProbeFailure ==
    /\ StatusWithEndpoints
    /\ (ret.probeErr # "" \/ ret.probeCount = 0 \/ ret.probeCount # ret.size)

\* ... and the probe succeeded with exactly the declared number of members
StatusProbeSuccess ==
    /\ StatusWithEndpoints
    /\ ret.probeErr = "" /\ ret.probeCount # 0 /\ ret.probeCount = ret.size

\* C1: on the probe-failure path the returned phase is Unknown when the
\* previous phase was Running and the previous phase otherwise, never
\* Creating after Running; the member list is the previous one and the
\* probe's error is the error returned.
C1_ProbeFailurePhase ==
    StatusProbeFailure =>
        /\ ret.status.phase =
              (IF ret.prev.phase = "Running" THEN "Unknown" ELSE ret.prev.phase)
        /\ (ret.prev.phase = "Running" => ret.status.phase # "Creating")
        /\ ret.status.members = ret.prev.members
        /\ ret.err = ret.probeErr

C1_Witness ==
    /\ StatusProbeFailure
    /\ ret.prev.phase = "Running"
    /\ ret.prev.members # <<>>
    /\ ret.probeErr # ""
    /\ ret.status.phase = "Unknown"

\* C2 as stated: whenever endpoint discovery returns no member endpoints,
\* Status reports Creating and returns with no error and without probing.
C2_NoEndpointsAlwaysCreating ==
    (ret.op = "Status" /\ Len(ret.endpoints) = 0) =>
        /\ ret.status.phase = "Creating"
        /\ ret.err = ""
        /\ ~ret.probed

\* C2 amended: when endpoint discovery returns no member endpoints and the
\* annotations hold no importedAddr, Status reports Creating and returns
\* with no error and without probing, the rest of the status as it was; with
\* an importedAddr (AfterCreate writes one) that address is probed instead.
C2_NoEndpointsNoImportedCreating ==
    (ret.op = "Status" /\ Len(ret.endpoints) = 0) =>
        IF ret.imported
        THEN ret.probed /\ Len(ret.probeEndpoints) = 1
        ELSE /\ ret.status = [ret.prev EXCEPT !.phase = "Creating"]
             /\ ret.err = ""
             /\ ~ret.probed

C2_Witness ==
    /\ ret.op = "Status" /\ Len(ret.endpoints) = 0 /\ ~ret.imported
    /\ ret.prev.phase = "Creating"
    /\ ret.status.phase = "Creating"
    /\ ret.probeErr # ""

\* C3 as stated: on the probe-success path the returned phase equals the
\* candidate if and only if the previous phase was Running or the candidate
\* is not Unknown; otherwise the previous phase is returned.
C3_CandidateIffOverwrite ==
    StatusProbeSuccess =>
        /\ (ret.status.phase = ret.candidate)
              <=> (ret.prev.phase = "Running" \/ ret.candidate # "Unknown")
        /\ (~(ret.prev.phase = "Running" \/ ret.candidate # "Unknown")
              => ret.status.phase = ret.prev.phase)

\* C3 amended: on the probe-success path the returned phase is the candidate
\* when the previous phase was Running or the candidate is not Unknown, and
\* the previous phase otherwise; it differs from the candidate only when the
\* candidate is Unknown and the previous phase is neither Running nor Unknown.
C3_CandidateOverwrite ==
    StatusProbeSuccess =>
        /\ ret.status.phase =
              (IF ret.prev.phase = "Running" \/ ret.candidate # "Unknown"
               THEN ret.candidate ELSE ret.prev.phase)
        /\ (ret.status.phase # ret.candidate)
              <=> (ret.candidate = "Unknown"
                     /\ ret.prev.phase \notin {"Running", "Unknown"})

C3_Witness ==
    /\ StatusProbeSuccess
    /\ ret.prev.phase = "Unknown"
    /\ ret.candidate = "Unknown"
    /\ ret.status.phase = "Unknown"

\* C4 as stated: a Running cluster whose probe succeeds with candidate
\* Unknown is still reported Running.
C4_RunningNotDowngraded ==
    (StatusProbeSuccess /\ ret.prev.phase = "Running" /\ ret.candidate = "Unknown")
        => ret.status.phase = "Running"

\* C4 amended: a Running cluster whose probe succeeds with candidate Unknown
\* is reported Unknown by that call; it is a cluster in another phase that
\* such a probe leaves in its previous phase.
C4_RunningDowngraded ==
    (StatusProbeSuccess /\ ret.candidate = "Unknown") =>
        ret.status.phase =
            (IF ret.prev.phase = "Running" THEN "Unknown" ELSE ret.prev.phase)

C4_Witness ==
    /\ StatusProbeSuccess
    /\ ret.prev.phase = "Running"
    /\ ret.candidate = "Unknown"
    /\ ret.status.phase = "Unknown"

\* C10: every lifecycle call returns normally, whatever the descriptor.
C10_NoPanic == ret.outcome = "return"

(***************************************************************************)
(* FeatureRequest.Init: the properties                                     *)
(***************************************************************************)
\* C5: under every interleaving of the callers the one-time body runs at
\* most once, and a caller that is returning or has returned finds the body
\* run exactly once and finished.
C5_InitBodyOnce ==
    /\ bodyStarted <= 1
    /\ bodyEnded <= bodyStarted
    /\ \A p \in Callers :
         pc[p] \in {"return", "returned"} => bodyStarted = 1 /\ bodyEnded = 1

C5_Witness ==
    /\ \A p \in Callers : pc[p] = "returned"
    /\ bodyStarted = 1 /\ bodyEnded = 1
    /\ inspection = "initialized"

(***************************************************************************)
(* Create, Update, Equal: the properties                                   *)
(***************************************************************************)
\* C6: when the store answers the create request with AlreadyExists, Create
\* returns no error and the stored document is the one that was there; any
\* other error of the store is the error returned, the store is as it was,
\* and a call sends at most one create request.
C6_CreateIdempotent ==
    ret.op = "Create" =>
        /\ ret.writes <= 1
        /\ (ret.storeErr = "AlreadyExists" =>
               ret.err = "" /\ ret.before.present /\ store = ret.before)
        /\ (ret.storeErr \notin {"", "AlreadyExists"} =>
               ret.err = ret.storeErr /\ store = ret.before)

C6_Witness ==
    /\ ret.op = "Create"
    /\ ret.storeErr = "AlreadyExists"
    /\ ret.err = ""
    /\ "spec" \in DOMAIN store.obj.v
    /\ store.obj.v.spec # generateEtcdSpec(cluster)

\* C7: after a successful Update the stored document is the submitted one,
\* its spec subtree is exactly the generated spec, and every other top-level
\* part of it is the fetched document's.
C7_UpdateReplacesSpec ==
    (ret.op = "Update" /\ ret.err = "") =>
        /\ store = Document(ret.submitted)
        /\ store.obj.v.spec = generateEtcdSpec(cluster)
        /\ DOMAIN store.obj.v = DOMAIN ret.before.obj.v
        /\ \A k \in DOMAIN ret.before.obj.v \ {"spec"} :
               ret.submitted.v[k] = ret.before.obj.v[k]

C7_Witness ==
    /\ ret.op = "Update" /\ ret.err = ""
    /\ "paused" \in DOMAIN ret.before.obj.v.spec.v
    /\ "paused" \notin DOMAIN store.obj.v.spec.v
    /\ "status" \in DOMAIN store.obj.v

\* the fetched document has no spec, or a spec that is not a map
NoReadableSpec(obj) == "spec" \notin DOMAIN obj.v \/ obj.v.spec.t # "map"

\* C8: an Update that fetches a document without a readable spec returns an
\* error and sends no update request; an Update whose fetch fails returns
\* the fetch error and sends no update request; the store is unchanged.
C8_UpdateAbortsOnMalformed ==
    ret.op = "Update" =>
        /\ (ret.getErr = "" /\ NoReadableSpec(ret.before.obj)) =>
               ret.err # "" /\ ret.writes = 0 /\ store = ret.before
        /\ ret.getErr # "" =>
               ret.err = ret.getErr /\ ret.writes = 0 /\ store = ret.before

C8_Witness ==
    /\ ret.op = "Update"
    /\ ret.getErr = ""
    /\ "spec" \notin DOMAIN ret.before.obj.v
    /\ ret.err = "get spec error"

\* the value at a path is missing or not of the type Equal reads it as
Unreadable(obj, path, type) ==
    LET r == NestedFieldNoCopy(obj, path)
    IN  r.err \/ ~r.found \/ r.val.t # type

\* one of size, version, storage, cpu and memory is missing or of a wrong type
ScalarMalformed(obj) ==
    \/ Unreadable(obj, <<"spec", "size">>, "int")
    \/ Unreadable(obj, <<"spec", "version">>, "str")
    \/ Unreadable(obj, StoragePath, "str")
    \/ Unreadable(obj, CPUPath, "str")
    \/ Unreadable(obj, MemoryPath, "str")

\* C9: Equal returns an error when the fetched document lacks one of size,
\* version, storage, cpu and memory, or holds it with a wrong type.
C9_EqualRejectsMalformed ==
    (ret.op = "Equal" /\ ret.getErr = "" /\ ScalarMalformed(ret.before.obj))
        => ret.err # ""

(***************************************************************************)
(* Equal: what counts as a match, stated on the documents themselves       *)
(***************************************************************************)
\* the document holds exactly this value at the path
HoldsValue(obj, path, j) ==
    LET r == NestedFieldNoCopy(obj, path)
    IN  r.found /\ r.val = j

SizeMatches(c, obj) == HoldsValue(obj, <<"spec", "size">>, JInt(c.size))
DiskMatches(c, obj) ==
    HoldsValue(obj, StoragePath, JStr(Itoa(c.diskSize) \o <<"G", "i">>))
CPUMatches(c, obj) == HoldsValue(obj, CPUPath, JStr(Itoa(c.totalCpu)))
MemoryMatches(c, obj) ==
    HoldsValue(obj, MemoryPath, JStr(Itoa(c.totalMem) \o <<"G", "i">>))

\* the observed env list is absent, null or empty
ObservedEnvEmpty(obj) ==
    LET r == NestedFieldNoCopy(obj, EnvPath)
    IN  ~r.found \/ r.val = JNull \/ r.val = JList(<<>>)

\* the observed env list is a non-empty list of name/value objects
ObservedEnvNonEmpty(obj) ==
    LET r == NestedFieldNoCopy(obj, EnvPath)
    IN  /\ r.found /\ r.val.t = "list" /\ Len(r.val.v) > 0
        /\ \A i \in 1..Len(r.val.v) :
               /\ r.val.v[i].t = "map"
               /\ \A k \in DOMAIN r.val.v[i].v : r.val.v[i].v[k].t = "str"

EnvMatches(c, obj) ==
    IF Len(c.env.items) = 0 THEN ObservedEnvEmpty(obj)
    ELSE HoldsValue(obj, EnvPath,
                    JList([i \in 1..Len(c.env.items) |->
                              JMap([name |-> JStr(c.env.items[i].name),
                                    value |-> JStr(c.env.items[i].value)])]))

\* size, disk, cpu and memory match
FourScalarsMatch(c, obj) ==
    SizeMatches(c, obj) /\ DiskMatches(c, obj) /\ CPUMatches(c, obj)
        /\ MemoryMatches(c, obj)

\* a version string without its leading "v" characters
WithoutV(s) ==
    LET rest == {i \in 1..Len(s) : s[i] # "v"}
    IN  IF rest = {} THEN <<>>
        ELSE SubSeq(s, CHOOSE i \in rest : \A j \in rest : i <= j, Len(s))

\* the version the document holds, when it holds a string
ObservedVersion(obj) == NestedFieldNoCopy(obj, <<"spec", "version">>).val.v

\* C11: when size, disk, cpu, memory and env match and the document holds a
\* version string, Equal returns (true, nil) if the two versions are the same
\* or one is the other with a "v" put in front, and (false, nil) if they
\* still differ once the leading "v" characters are taken off both.
C11_VersionPrefixInsensitive ==
    (/\ ret.op = "Equal" /\ ret.getErr = ""
     /\ FourScalarsMatch(cluster, ret.before.obj)
     /\ EnvMatches(cluster, ret.before.obj)
     /\ ~Unreadable(ret.before.obj, <<"spec", "version">>, "str"))
    => LET old == ObservedVersion(ret.before.obj)
           new == cluster.version
       IN  /\ (old = new \/ old = <<"v">> \o new \/ new = <<"v">> \o old)
                  => ret.eq /\ ret.err = ""
           /\ WithoutV(old) # WithoutV(new) => ~ret.eq /\ ret.err = ""

C11_Witness ==
    /\ ret.op = "Equal" /\ ret.getErr = ""
    /\ cluster.version = <<"3", ".", "5">>
    /\ ~Unreadable(ret.before.obj, <<"spec", "version">>, "str")
    /\ ObservedVersion(ret.before.obj) = <<"v", "3", ".", "5">>
    /\ ret.eq /\ ret.err = ""

VersionMatches(c, obj) == HoldsValue(obj, <<"spec", "version">>, JStr(c.version))

FiveScalarsMatch(c, obj) == FourScalarsMatch(c, obj) /\ VersionMatches(c, obj)

\* C12: with the five scalars matching, a descriptor env that is nil or
\* empty and an observed env that is absent, null or empty give (true, nil),
\* whichever of the empty forms each side has; an empty env on one side and a
\* non-empty list of variables on the other give (false, nil).
C12_EmptyEnvEquivalence ==
    (/\ ret.op = "Equal" /\ ret.getErr = ""
     /\ FiveScalarsMatch(cluster, ret.before.obj))
    => /\ (Len(cluster.env.items) = 0 /\ ObservedEnvEmpty(ret.before.obj))
              => ret.eq /\ ret.err = ""
       /\ (Len(cluster.env.items) = 0 /\ ObservedEnvNonEmpty(ret.before.obj))
              => ~ret.eq /\ ret.err = ""
       /\ (Len(cluster.env.items) > 0 /\ ObservedEnvEmpty(ret.before.obj))
              => ~ret.eq /\ ret.err = ""

\* a nil descriptor env against an observed empty list
C12_Witness ==
    /\ ret.op = "Equal" /\ ret.getErr = ""
    /\ FiveScalarsMatch(cluster, ret.before.obj)
    /\ cluster.env.nil
    /\ HoldsValue(ret.before.obj, EnvPath, JList(<<>>))
    /\ ret.eq /\ ret.err = ""

\* a quantity string without its trailing "G" and "i" characters
WithoutUnit(s) ==
    LET keep == {i \in 1..Len(s) : s[i] \notin {"G", "i"}}
    IN  IF keep = {} THEN <<>>
        ELSE SubSeq(s, 1, CHOOSE i \in keep : \A j \in keep : j <= i)

\* the scalar the document holds at a path
Observed(obj, path) == NestedFieldNoCopy(obj, path).val.v

\* for a document whose five scalars are readable: the field differs from
\* the descriptor's under the comparison rule of that field
SizeDiffers(c, obj) == Observed(obj, <<"spec", "size">>) # c.size
VersionDiffers(c, obj) == WithoutV(ObservedVersion(obj)) # WithoutV(c.version)
DiskDiffers(c, obj) == WithoutUnit(Observed(obj, StoragePath)) # Itoa(c.diskSize)
CPUDiffers(c, obj) == Observed(obj, CPUPath) # Itoa(c.totalCpu)
MemoryDiffers(c, obj) == WithoutUnit(Observed(obj, MemoryPath)) # Itoa(c.totalMem)

\* the fields in the order of comparison, with whether each differs
ScalarOrder == <<"size", "version", "storage", "cpu", "memory">>
Differs(c, obj) ==
    [size |-> SizeDiffers(c, obj), version |-> VersionDiffers(c, obj),
     storage |-> DiskDiffers(c, obj), cpu |-> CPUDiffers(c, obj),
     memory |-> MemoryDiffers(c, obj)]

\* C13: on a fetched document with readable scalars, Equal reports the first
\* field, in the order size, version, disk, cpu, memory, that differs;
\* whenever one of the five differs it returns (false, nil) and has not
\* decoded the env list; it returns an error only when none of the five
\* differs.
C13_ShortCircuitOrder ==
    (ret.op = "Equal" /\ ret.getErr = "" /\ ~ScalarMalformed(ret.before.obj))
    => LET df == Differs(cluster, ret.before.obj)
       IN  /\ \A i \in 1..Len(ScalarOrder) :
                  ret.diff = ScalarOrder[i]
                      <=> /\ df[ScalarOrder[i]]
                          /\ \A j \in 1..(i - 1) : ~df[ScalarOrder[j]]
           /\ (\E i \in 1..Len(ScalarOrder) : df[ScalarOrder[i]])
                  => ~ret.eq /\ ret.err = "" /\ ~ret.decoded
           /\ ret.err # "" => \A i \in 1..Len(ScalarOrder) : ~df[ScalarOrder[i]]

\* a document whose disk differs and whose env list would not decode
C13_Witness ==
    /\ ret.op = "Equal" /\ ret.getErr = "" /\ ~ScalarMalformed(ret.before.obj)
    /\ DiskDiffers(cluster, ret.before.obj)
    /\ HoldsValue(ret.before.obj, EnvPath, JList(<<JStr(<<"A", "=", "1">>)>>))
    /\ ~ret.eq /\ ret.err = "" /\ ret.diff = "storage" /\ ~ret.decoded

(***************************************************************************)
(* generateEtcdSpec: the properties                                        *)
(***************************************************************************)
\* the descriptor's SAN annotation, "" when there is none
SANString(c) ==
    IF ~c.annotations.nil /\ "extraServerCertSANs" \in DOMAIN c.annotations.kv
    THEN c.annotations.kv.extraServerCertSANs ELSE <<>>

\* the host names in a SAN string: <<lo, hi>> for every stretch between two
\* commas (or an end of the string) that has a character other than a space,
\* lo and hi the first and last such character
SANTokens(s) ==
    LET cuts == {0, Len(s) + 1} \cup {i \in 1..Len(s) : s[i] = ","}
        ink(a, b) == {i \in (a + 1)..(b - 1) : s[i] # " "}
    IN  {<<CHOOSE i \in ink(a, b) : \A j \in ink(a, b) : i <= j,
           CHOOSE i \in ink(a, b) : \A j \in ink(a, b) : j <= i>> :
            <<a, b>> \in {x \in cuts \X cuts :
                            /\ x[1] < x[2]
                            /\ \A k \in cuts : ~(x[1] < k /\ k < x[2])
                            /\ ink(x[1], x[2]) # {}}}

\* the list of host names the document should carry: the tokens from left
\* to right, null when there is none
ExpectedSANs(s) ==
    LET T == SANTokens(s)
        nth(k) == CHOOSE t \in T : Cardinality({u \in T : u[1] < t[1]}) = k - 1
    IN  IF T = {} THEN JNull
        ELSE JList([k \in 1..Cardinality(T) |->
                       JStr(SubSeq(s, nth(k)[1], nth(k)[2]))])

SchemeIsHTTPS(c) ==
    /\ ~c.annotations.nil
    /\ "scheme" \in DOMAIN c.annotations.kv
    /\ c.annotations.kv.scheme = "https"

\* C14: for a TLS descriptor the synthesized document has
\* secure.tls.autoTLSCert with the client, peer and server flags true and
\* the extra SANs the annotation names (split at commas, trimmed, empty ones
\* dropped, in order; null when none is left), and its extra arguments are
\* logger=zap then client-cert-auth=true; for any other descriptor it has no
\* secure subtree and its extra arguments are logger=zap alone.
C14_TLSBranch ==
    ret.op = "generateEtcdSpec" =>
        IF SchemeIsHTTPS(cluster)
        THEN /\ "secure" \in DOMAIN ret.spec.v
             /\ ret.spec.v.secure = JMap([tls |-> JMap([autoTLSCert |-> JMap(
                    [autoGenerateClientCert |-> JBool(TRUE),
                     autoGeneratePeerCert |-> JBool(TRUE),
                     autoGenerateServerCert |-> JBool(TRUE),
                     extraServerCertSANs |-> ExpectedSANs(SANString(cluster))])])])
             /\ ret.spec.v.template.v.extraArgs =
                    JList(<<JStr("logger=zap"), JStr("client-cert-auth=true")>>)
        ELSE /\ "secure" \notin DOMAIN ret.spec.v
             /\ ret.spec.v.template.v.extraArgs = JList(<<JStr("logger=zap")>>)

\* two host names around an empty piece, in the order given
C14_Witness ==
    /\ ret.op = "generateEtcdSpec"
    /\ SchemeIsHTTPS(cluster)
    /\ SANString(cluster) = <<"b", ",", "a">>
    /\ ret.spec.v.secure.v.tls.v.autoTLSCert.v.extraServerCertSANs =
           JList(<<JStr(<<"b">>), JStr(<<"a">>)>>)

(***************************************************************************)
(* AfterCreate: the properties                                             *)
(***************************************************************************)
\* C15: after an AfterCreate on a non-nil annotation map, another AfterCreate
\* leaves the map as it is (a run on a map a previous run wrote changes
\* nothing); certName is in the map afterwards exactly when it was there
\* before or the scheme is https, and then holds namespace/name-etcd-client-cert.
C15_AfterCreateIdempotent ==
    (ret.op = "AfterCreate" /\ ret.outcome = "return")
    => /\ AfterCreateResult(cluster) =
              [outcome |-> "return", annotations |-> cluster.annotations]
       /\ MapHas(ret.before, "importedAddr") => cluster.annotations = ret.before
       /\ MapHas(cluster.annotations, "certName")
              <=> (MapHas(ret.before, "certName") \/ SchemeIsHTTPS(cluster))
       /\ SchemeIsHTTPS(cluster) =>
              cluster.annotations.kv.certName =
                  <<"ns", "/", "c1", "-etcd-client-cert">>

\* the second of two runs on a TLS cluster with two members
C15_Witness ==
    /\ ret.op = "AfterCreate" /\ ret.outcome = "return"
    /\ MapHas(ret.before, "importedAddr")
    /\ MapHas(ret.before, "extClientURL")
    /\ SchemeIsHTTPS(cluster)
    /\ cluster.size = MaxSize
    /\ cluster.annotations = ret.before

(***************************************************************************)
(* Reconciliation: the properties                                          *)
(***************************************************************************)
\* the decimal digits of a string read as a number
RECURSIVE ParseNat(_)
ParseNat(s) ==
    IF s = <<>> THEN 0
    ELSE 10 * ParseNat(SubSeq(s, 1, Len(s) - 1))
           + (CHOOSE d \in 0..9 : Digits[d + 1] = s[Len(s)])

\* a quantity string with the two characters of its unit taken off
StripGi(s) == SubSeq(s, 1, Len(s) - 2)

\* the stored document's spec is the one synthesized for the descriptor, as
\* a Create or an Update that succeeded leaves it
SpecIsSynthesized ==
    /\ store.present
    /\ "spec" \in DOMAIN store.obj.v
    /\ store.obj.v.spec = generateEtcdSpec(cluster)

\* C16: an Equal that fetches the document right after an Update for the
\* same descriptor succeeded, or after a Create stored its document, returns
\* (true, nil); so does any Equal on a document whose spec is the one
\* synthesized for the descriptor. The disk and memory strings of such a
\* spec are the descriptor's integers followed by Gi.
C16_FixedPoint ==
    /\ (ret.op = "Equal" /\ ret.after # "") => SpecIsSynthesized
    /\ SpecIsSynthesized =>
        /\ LET disk == Observed(store.obj, StoragePath)
               mem == Observed(store.obj, MemoryPath)
           IN  /\ SubSeq(disk, Len(disk) - 1, Len(disk)) = <<"G", "i">>
               /\ ParseNat(StripGi(disk)) = cluster.diskSize
               /\ SubSeq(mem, Len(mem) - 1, Len(mem)) = <<"G", "i">>
               /\ ParseNat(StripGi(mem)) = cluster.totalMem
        /\ (ret.op = "Equal" /\ ret.getErr = "") => ret.eq /\ ret.err = ""

\* an Equal right after an Update that replaced the spec of a drifted document
C16_Witness ==
    /\ ret.op = "Equal" /\ ret.after = "Update"
    /\ ret.getErr = "" /\ ret.eq /\ ret.err = ""
    /\ cluster.totalMem = 10
    /\ ~cluster.env.nil /\ Len(cluster.env.items) > 0
    /\ SchemeIsHTTPS(cluster)
    /\ "status" \in DOMAIN store.obj.v

\* the fault of the last call's fetch, "" when the store answered
FetchFault == IF ret.getErr \in StoreFaults THEN ret.getErr ELSE ""

\* the descriptor with other labels and annotations, all else the same
Relabelled(c, a, l) == [c EXCEPT !.annotations = a, !.labels = l]

\* the stored spec was synthesized for a descriptor that has the six compared
\* fields of this one, but not for this one
StaleOutsideSixFields(st) ==
    /\ st.present
    /\ "spec" \in DOMAIN st.obj.v
    /\ st.obj.v.spec # generateEtcdSpec(cluster)
    /\ \E a \in ReconcileAnnotations, l \in LabelSets :
           st.obj.v.spec = generateEtcdSpec(Relabelled(cluster, a, l))

\* C17: against the document an Equal looked at, every descriptor that
\* differs from the descriptor in labels and annotations only (security
\* mode and SANs included) gets the same result; a reconciler round on a
\* document synthesized before such a change finds Equal true, sends no
\* Update and leaves the stale document in the store.
C17_SixFieldsOnly ==
    /\ ret.op \in {"Equal", "Reconcile"} =>
           \A a \in ReconcileAnnotations, l \in LabelSets :
               LET r == EqualResult(Relabelled(cluster, a, l), ret.before, FetchFault)
               IN  r.eq = ret.eq /\ r.err = ret.err
    /\ (ret.op = "Reconcile" /\ ret.getErr = "" /\ StaleOutsideSixFields(ret.before))
           => /\ ret.eq /\ ret.err = ""
              /\ ~ret.updated /\ ret.writes = 0
              /\ store = ret.before

\* the user turned TLS on after the document was stored; the reconciler
\* round that follows leaves the document without a secure subtree
C17_Witness ==
    /\ ret.op = "Reconcile" /\ ret.after = "Relabel" /\ ret.getErr = ""
    /\ StaleOutsideSixFields(ret.before)
    /\ SchemeIsHTTPS(cluster)
    /\ "secure" \notin DOMAIN store.obj.v.spec.v
    /\ ret.eq /\ ~ret.updated

\* C18: an Equal whose fetch fails returns the store's error as it came,
\* with the boolean true, and writes nothing; no Equal returns false together
\* with an error; a reconciler round whose fetch fails sends no Update.
C18_EqualOnFailedFetch ==
    ret.op \in {"Equal", "Reconcile"} =>
        /\ ret.getErr # "" =>
               /\ ret.eq /\ ret.err = ret.getErr
               /\ ret.err \in StoreFaults \cup {"NotFound"}
               /\ ret.err = "NotFound" => ~ret.before.present
               /\ ret.writes = 0 /\ store = ret.before
               /\ ret.op = "Reconcile" => ~ret.updated
        /\ ~ret.before.present => ret.getErr # ""
        /\ ~(~ret.eq /\ ret.err # "")

\* a reconciler round on a cluster whose remote resource does not exist
C18_Witness ==
    /\ ret.op = "Reconcile"
    /\ ~ret.before.present
    /\ ret.getErr = "NotFound" /\ ret.err = "NotFound"
    /\ ret.eq /\ ~ret.updated
    /\ ~store.present

(***************************************************************************)
(* FeatureRequest.Init: who is told of a failure                           *)
(***************************************************************************)
\* C19: a caller that returns a non-nil error is the one whose Do ran the
\* body, and the error is the one the body got; every other caller returns
\* nil, also when the body failed; once the body has finished, with or
\* without an error, no caller enters it again.
C19_InitErrorOnce ==
    /\ \A p \in Callers :
         pc[p] \in {"return", "returned"} =>
             /\ callErr[p] # "" => p = bodyRunner /\ callErr[p] = bodyErr
             /\ p # bodyRunner => callErr[p] = ""
             /\ p = bodyRunner => callErr[p] = bodyErr
    /\ bodyEnded >= 1 =>
         /\ bodyStarted = 1
         /\ \A p \in Callers : pc[p] \notin {"body", "init"}

\* the body failed: its runner returned the error, the others returned nil
C19_Witness ==
    /\ \A p \in Callers : pc[p] = "returned"
    /\ bodyErr = "initFailed"
    /\ bodyRunner \in Callers
    /\ callErr[bodyRunner] = "initFailed"
    /\ \A p \in Callers \ {bodyRunner} : callErr[p] = ""
    /\ bodyStarted = 1
    /\ inspection = "constructed"

(***************************************************************************)
(* Status: how Unknown is reached                                          *)
(***************************************************************************)
\* C20: in a run of Status calls that starts from a phase other than Unknown
\* and feeds each returned status to the next call, a call returns Unknown
\* only when its previous phase was Running or Unknown, and the phase is
\* never Unknown before some call has returned Running.
C20_UnknownOnlyThroughRunning ==
    /\ ret.op = "Status" =>
           (ret.status.phase = "Unknown" => ret.prev.phase \in {"Running", "Unknown"})
    /\ ~ret.seenRunning => cluster.status.phase # "Unknown"

\* a cluster never reported Running whose probe failed and whose next probe
\* found an unhealthy member: still not Unknown
C20_Witness ==
    /\ ret.op = "Status"
    /\ ~ret.seenRunning
    /\ ret.probed /\ ret.probeErr = "" /\ ret.probeCount = ret.size
    /\ ret.candidate = "Unknown"
    /\ ret.prev.phase = "Creating"
    /\ ret.status.phase = "Creating"

====
